---- MODULE Spec2Model ----
(***************************************************************************)
(* Model of WorkspaceBlobResolver                                          *)
(* (packages/backend/server/src/modules/workspaces/resolvers/blob.ts).     *)
(*                                                                         *)
(* One setBlob call is an "attempt": a sequence of steps separated by the  *)
(* awaits and stream events of the source.  The read operations and        *)
(* deleteBlob are single steps.  The blob storage, the permission service, *)
(* the quota service and the feature service are collaborators whose code  *)
(* is outside the resolver; they are modelled by their contract.           *)
(***************************************************************************)
EXTENDS Integers, Sequences, FiniteSets, TLC

\* ---------------------------------------------------------------- bounds
MaxQuota == 3       \* largest storage quota of the quota record
MaxUsed == 2        \* largest usage not held in the modelled store
MaxLimit == 2       \* largest per-blob limit
MaxPayload == 3     \* largest number of bytes one upload stream delivers
MaxChunks == 3      \* largest number of 'data' events of one stream

\* ---------------------------------------------------------------- domains
Attempts == {1, 2}
Workspaces == {"w1", "w2"}
Users == {"u1", "u2"}
Names == {"a", "b"}
None == "none"

\* Permission enum of ../types: Read < Write; NoAccess is "not a member".
NoAccess == -1
PermissionRead == 0
PermissionWrite == 1

\* the quota of a usage that has no quota record (undefined in the source)
NoQuota == -1

QuotaValues == {NoQuota} \cup (0 .. MaxQuota)

\* an absent blob and a stored blob of the storage
Absent == [has |-> FALSE, bytes |-> <<>>]
Blob(bytes) == [has |-> TRUE, bytes |-> bytes]

VARIABLES
  quota,       \* storage quota of the quota record, NoQuota when there is none
  limit,       \* per-blob limit of the quota record
  baseUsed,    \* bytes used outside the modelled store
  unlimited,   \* workspaces that have FeatureType.UnlimitedWorkspace
  store,       \* WorkspaceBlobStorage: workspace -> name -> Blob or Absent
  att,         \* per setBlob attempt: the locals of the call and its stream
  lastPut,     \* history: workspace -> name -> attempt whose put was stored last
  unchecked,   \* history: operations that called the storage without a
               \* passed permission check for the workspace and the caller
  cache,       \* entries of the query cache behind MakeCache / PreventCache
  staleServed, \* history: a cached list was served that the storage no longer holds
  fetcher      \* the frontend call in progress (graphql/src/fetcher.ts)

vars == <<quota, limit, baseUsed, unlimited, store, att, lastPut, unchecked,
          cache, staleServed, fetcher>>

\* ---------------------------------------------------------------- helpers
RECURSIVE SumLen(_)
\* chunks.reduce((acc, cur) => acc + cur.length, 0)
SumLen(chunks) ==
  IF chunks = <<>> THEN 0 ELSE Len(Head(chunks)) + SumLen(Tail(chunks))

RECURSIVE Concat(_)
\* Buffer.concat(chunks)
Concat(chunks) ==
  IF chunks = <<>> THEN <<>> ELSE Head(chunks) \o Concat(Tail(chunks))

\* the i-th byte the upload source of attempt a delivers
Byte(a, i) == a * 10 + i

\* the first n bytes of the payload of attempt a
Payload(a, n) == [i \in 1 .. n |-> Byte(a, i)]

\* the chunk of len bytes that follows the first sent bytes
NextChunk(a, sent, len) == [i \in 1 .. len |-> Byte(a, sent + i)]

\* PermissionService: the level user u holds on workspace w
Granted(w, u) ==
  CASE w = "w1" /\ u = "u1" -> PermissionWrite
    [] w = "w1" /\ u = "u2" -> NoAccess
    [] w = "w2" /\ u = "u1" -> PermissionRead
    [] OTHER -> PermissionWrite

\* permissions.checkWorkspace(ws, user, permission = Permission.Read):
\* TRUE when it returns, FALSE when it throws
checkWorkspace(w, u, permission) == Granted(w, u) >= permission

\* storage.totalSize(workspaceId)
RECURSIVE SizeOver(_, _)
SizeOver(blobs, names) ==
  IF names = {} THEN 0
  ELSE LET n == CHOOSE x \in names : TRUE
       IN (IF blobs[n].has THEN Len(blobs[n].bytes) ELSE 0)
          + SizeOver(blobs, names \ {n})

totalSize(w) == SizeOver(store[w], Names)

\* storage.list(workspaceId).map(item => item.key)
listKeys(w) == {n \in Names : store[w][n].has}

\* quota.getWorkspaceUsage(workspaceId)
getWorkspaceUsage(w) ==
  [quota |-> quota, size |-> baseUsed + totalSize(w), limit |-> limit]

\* feature.hasWorkspaceFeature(workspaceId, FeatureType.UnlimitedWorkspace)
hasWorkspaceFeature(w) == w \in unlimited

\* what the quota and feature services answer for workspace w right now
LiveView(w) ==
  [quota |-> getWorkspaceUsage(w).quota, size |-> getWorkspaceUsage(w).size,
   limit |-> getWorkspaceUsage(w).limit, unlimited |-> hasWorkspaceFeature(w)]

\* mutant of GuardView: every evaluation of the guard queries the services again
GuardViewLive(r) == LiveView(r.ws)

\* the values the closure checkExceeded reads in the call whose locals are r:
\* the constants quota, size, limit and unlimited captured at lines 131-137
GuardView(r) ==
  [quota |-> r.snap.quota, size |-> r.snap.size,
   limit |-> r.snap.limit, unlimited |-> r.unl]

\* mutant of Falsy: only a limit of 0 is rejected, a missing one is not
FalsyZeroOnly(q) == q = 0

\* JavaScript !quota : undefined, null and 0 are falsy
Falsy(q) == q = NoQuota \/ q = 0

\* mutant of checkExceeded: the aggregate test on the total is left out
checkExceededBlobOnly(v, recvSize) ==
  IF Falsy(v.quota) THEN "missing"
  ELSE IF recvSize > v.limit THEN "exceeded"
  ELSE "ok"

\* checkExceeded(recvSize) on the captured values v:
\* "missing" = throws 'cannot find user quota', "exceeded" = true, "ok" = false
checkExceeded(v, recvSize) ==
  IF Falsy(v.quota) THEN "missing"
  ELSE IF v.size + recvSize > v.quota /\ ~v.unlimited THEN "exceeded"
  ELSE IF recvSize > v.limit THEN "exceeded"
  ELSE "ok"

\* history record of one evaluation of the guard: the values it used, and
\* whether the services still answered those values at that moment
Eval(v, w) == [view |-> v, fresh |-> v = LiveView(w)]

NoSnap == [quota |-> NoQuota, size |-> 0, limit |-> 0]

IdleAttempt ==
  [pc |-> "idle", ws |-> "w1", name |-> "a", checked |-> FALSE,
   snap |-> NoSnap, unl |-> FALSE, usageReads |-> 0, featureReads |-> 0,
   views |-> {}, stream |-> "none", chunks |-> <<>>, buffer |-> <<>>,
   tripped |-> 0, result |-> None, by |-> None, returned |-> None,
   puts |-> 0, putArg |-> <<>>, putFailed |-> FALSE]

\* ---------------------------------------------------------------- query cache
\* no frontend call is in progress
NoCall == [op |-> "none"]

\* line 71: @MakeCache(['blobs'], ['workspaceId']) on listBlobs
listBlobsMakeCache == [tags |-> {"blobs"}, keyed |-> <<"workspaceId">>]

\* mutant of setBlobPreventCache: the mutation is registered under another tag
setBlobPreventCacheOtherTag == [tags |-> {"blob"}, keyed |-> <<"workspaceId">>]

\* line 118: @PreventCache(['blobs'], ['workspaceId']) on setBlob
setBlobPreventCache == [tags |-> {"blobs"}, keyed |-> <<"workspaceId">>]

\* mutant of deleteBlobPreventCache: the mutation is keyed by the blob name
deleteBlobPreventCacheByHash == [tags |-> {"blobs"}, keyed |-> <<"hash">>]

\* line 212: @PreventCache(['blobs'], ['workspaceId']) on deleteBlob
deleteBlobPreventCache == [tags |-> {"blobs"}, keyed |-> <<"workspaceId">>]

\* the cache keys of a registration for the arguments of one call: one per
\* tag, indexed by the values of the keyed arguments
CacheKeys(reg, args) ==
  {<<t, [i \in 1 .. Len(reg.keyed) |-> args[reg.keyed[i]]]>> : t \in reg.tags}

\* invalidate(tags, argValues): the entries under these keys are dropped
Invalidate(reg, args) == {e \in cache : e.key \notin CacheKeys(reg, args)}

\* ---------------------------------------------------------------- setBlob
\* mutant of MayWrite: the check is not awaited, so its rejection is lost
MayWriteNotAwaited(w, u) == TRUE

\* whether setBlob goes on after line 125: the awaited check did not throw
MayWrite(w, u) == checkWorkspace(w, u, PermissionWrite)

\* lines 119-129: the call starts and awaits the permission check
setBlobStart(a, w, u, name) ==
  /\ att[a].pc = "idle"
  /\ att' = [att EXCEPT ![a] =
       IF MayWrite(w, u)
       THEN [@ EXCEPT !.pc = "usage", !.ws = w, !.name = name,
                      !.checked = checkWorkspace(w, u, PermissionWrite)]
       ELSE [@ EXCEPT !.pc = "done", !.ws = w, !.name = name,
                      !.result = "Forbidden"]]
  /\ UNCHANGED <<quota, limit, baseUsed, unlimited, store, lastPut, unchecked,
                 cache, staleServed, fetcher>>

\* lines 131-132: const { quota, size, limit } = await getWorkspaceUsage
setBlobUsage(a) ==
  /\ att[a].pc = "usage"
  /\ att' = [att EXCEPT ![a] =
       [@ EXCEPT !.pc = "feature", !.snap = getWorkspaceUsage(att[a].ws),
                 !.usageReads = @ + 1]]
  /\ UNCHANGED <<quota, limit, baseUsed, unlimited, store, lastPut, unchecked,
                 cache, staleServed, fetcher>>

\* lines 134-170: const unlimited = await hasWorkspaceFeature; checkExceeded(0);
\* the promise is created and the stream opened with its three listeners
setBlobFeature(a) ==
  /\ att[a].pc = "feature"
  /\ LET r == [att[a] EXCEPT !.unl = hasWorkspaceFeature(att[a].ws),
                             !.featureReads = @ + 1]
         v == GuardView(r)
         c == checkExceeded(v, 0)
         r1 == [r EXCEPT !.views = @ \cup {Eval(v, r.ws)}]
     IN att' = [att EXCEPT ![a] =
          CASE c = "missing" ->
                 [r1 EXCEPT !.pc = "done", !.result = "QuotaMissing"]
            [] c = "exceeded" ->
                 [r1 EXCEPT !.pc = "done", !.result = "PayloadTooLarge",
                            !.by = "initial"]
            [] OTHER -> [r1 EXCEPT !.pc = "stream", !.stream = "open"]]
  /\ UNCHANGED <<quota, limit, baseUsed, unlimited, store, lastPut, unchecked,
                 cache, staleServed, fetcher>>

\* what reject(...) in the 'data' listener does to the stream: nothing, the
\* listener neither destroys nor pauses it (lines 177-186)
StreamAfterReject(s) == s

\* mutant of Push: one chunks array shared by all calls
PushShared(chs, a, chunk) == Append(chs[1], chunk)

\* chunks.push(chunk) of attempt a (line 173): the array is local to the promise
Push(chs, a, chunk) == Append(chs[a], chunk)

\* mutant of bufferSize: only the chunk just received is counted
bufferSizeLastChunk(chunks) == Len(chunks[Len(chunks)])

\* line 176: chunks.reduce((acc, cur) => acc + cur.length, 0)
bufferSize(chunks) == SumLen(chunks)

\* lines 172-187: stream.on('data', chunk => ...)
setBlobData(a, len) ==
  /\ att[a].stream = "open"
  /\ Len(att[a].chunks) < MaxChunks
  /\ SumLen(att[a].chunks) + len <= MaxPayload
  /\ LET chs == [b \in Attempts |-> att[b].chunks]
         chunks1 == Push(chs, a, NextChunk(a, SumLen(att[a].chunks), len))
         v == GuardView(att[a])
         c == checkExceeded(v, bufferSize(chunks1))
         r == [att[a] EXCEPT !.chunks = chunks1,
                             !.views = @ \cup {Eval(v, att[a].ws)}]
     IN att' = [att EXCEPT ![a] =
          IF c = "exceeded"
          THEN [r EXCEPT
                  !.tripped = IF @ = 0 THEN Len(chunks1) ELSE @,
                  !.stream = StreamAfterReject(@),
                  !.pc = IF @ = "stream" THEN "done" ELSE @,
                  !.result = IF r.pc = "stream" THEN "PayloadTooLarge" ELSE @,
                  !.by = IF r.pc = "stream" THEN "chunk" ELSE @]
          ELSE r]
  /\ UNCHANGED <<quota, limit, baseUsed, unlimited, store, lastPut, unchecked,
                 cache, staleServed, fetcher>>

\* line 188: stream.on('error', reject)
setBlobError(a) ==
  /\ att[a].stream = "open"
  /\ att' = [att EXCEPT ![a] =
       [@ EXCEPT !.stream = "errored",
                 !.pc = IF @ = "stream" THEN "done" ELSE @,
                 !.result = IF att[a].pc = "stream" THEN "StreamError" ELSE @,
                 !.by = IF att[a].pc = "stream" THEN "error" ELSE @]]
  /\ UNCHANGED <<quota, limit, baseUsed, unlimited, store, lastPut, unchecked,
                 cache, staleServed, fetcher>>

\* lines 189-204: stream.on('end', () => ...)
setBlobEnd(a) ==
  /\ att[a].stream = "open"
  /\ LET buffer == Concat(att[a].chunks)
         v == GuardView(att[a])
         c == checkExceeded(v, Len(buffer))
         r == [att[a] EXCEPT !.stream = "ended",
                             !.views = @ \cup {Eval(v, att[a].ws)}]
     IN att' = [att EXCEPT ![a] =
          IF r.pc # "stream" THEN r
          ELSE IF c = "exceeded"
          THEN [r EXCEPT !.pc = "done", !.result = "PayloadTooLarge",
                         !.by = "final"]
          ELSE IF c = "ok" THEN [r EXCEPT !.pc = "put", !.buffer = buffer]
          ELSE r]
  /\ UNCHANGED <<quota, limit, baseUsed, unlimited, store, lastPut, unchecked,
                 cache, staleServed, fetcher>>

\* mutant of AfterPutFailure: the error is swallowed and the name returned
AfterPutFailureSwallowed(r) ==
  [r EXCEPT !.pc = "done", !.result = "ok", !.returned = r.name]

\* what setBlob does when storage.put rejects: the await rethrows (line 207)
AfterPutFailure(r) == [r EXCEPT !.pc = "done", !.result = "StoreUnavailable"]

\* lines 207-208: await storage.put(workspaceId, blob.filename, buffer);
\* return blob.filename.  ok = FALSE is a put that fails with StoreUnavailable.
setBlobPut(a, ok) ==
  /\ att[a].pc = "put"
  /\ LET r == [att[a] EXCEPT !.puts = @ + 1, !.putArg = att[a].buffer]
     IN IF ok
        THEN /\ store' = [store EXCEPT ![r.ws][r.name] = Blob(r.buffer)]
             /\ lastPut' = [lastPut EXCEPT ![r.ws][r.name] = a]
             /\ cache' = Invalidate(setBlobPreventCache,
                                    [workspaceId |-> r.ws, blob |-> r.name])
             /\ att' = [att EXCEPT ![a] =
                  [r EXCEPT !.pc = "done", !.result = "ok",
                            !.returned = r.name]]
        ELSE /\ att' = [att EXCEPT ![a] =
                  AfterPutFailure([r EXCEPT !.putFailed = TRUE])]
             /\ UNCHANGED <<store, lastPut, cache>>
  /\ unchecked' = IF att[a].checked THEN unchecked
                  ELSE unchecked \cup {"setBlob"}
  /\ UNCHANGED <<quota, limit, baseUsed, unlimited, staleServed, fetcher>>

\* ---------------------------------------------------------------- reads, delete
\* lines 45-54: blobs(user, workspace): checkWorkspace, then storage.list
blobs(w, u) ==
  /\ checkWorkspace(w, u, PermissionRead)
  /\ UNCHANGED vars

\* lines 60-62: blobsSize(workspace): storage.totalSize, no permission check
blobsSize(w, u) ==
  /\ unchecked' = unchecked \cup {"blobsSize"}
  /\ UNCHANGED <<quota, limit, baseUsed, unlimited, store, att, lastPut,
                 cache, staleServed, fetcher>>

\* lines 72-81: listBlobs(user, workspaceId): checkWorkspace, then storage.list
listBlobs(w, u) ==
  /\ checkWorkspace(w, u, PermissionRead)
  /\ UNCHANGED vars

\* lines 67-81: the query listBlobs behind its MakeCache registration: a
\* cached result is served without running the method; otherwise the method
\* runs (checkWorkspace, storage.list) and its result is cached
cachedListBlobs(w, u) ==
  LET keys == CacheKeys(listBlobsMakeCache, [workspaceId |-> w])
      hits == {e \in cache : e.key \in keys}
  IN IF hits # {}
     THEN /\ staleServed' =
               (staleServed \/ \E e \in hits : e.value # listKeys(w))
          /\ UNCHANGED <<quota, limit, baseUsed, unlimited, store, att,
                         lastPut, unchecked, cache, fetcher>>
     ELSE /\ checkWorkspace(w, u, PermissionRead)
          /\ cache' = cache \cup {[key |-> k, value |-> listKeys(w)] : k \in keys}
          /\ UNCHANGED <<quota, limit, baseUsed, unlimited, store, att,
                         lastPut, unchecked, staleServed, fetcher>>

\* lines 214-223: deleteBlob(user, workspaceId, name)
deleteBlob(w, u, name) ==
  /\ checkWorkspace(w, u, PermissionRead)
  /\ store' = [store EXCEPT ![w][name] = Absent]
  /\ lastPut' = [lastPut EXCEPT ![w][name] = 0]
  /\ cache' = Invalidate(deleteBlobPreventCache,
                         [workspaceId |-> w, hash |-> name])
  /\ UNCHANGED <<quota, limit, baseUsed, unlimited, att, unchecked,
                 staleServed, fetcher>>

\* the quota record of the owner is replaced (a plan change, or its removal)
quotaChanged(q) ==
  /\ q # quota
  /\ quota' = q
  /\ UNCHANGED <<limit, baseUsed, unlimited, store, att, lastPut, unchecked,
                 cache, staleServed, fetcher>>

\* ---------------------------------------------------------------- specification
EmptyStore == [w \in Workspaces |-> [n \in Names |-> Absent]]

Init ==
  /\ quota \in QuotaValues
  /\ limit \in 1 .. MaxLimit
  /\ baseUsed \in 0 .. MaxUsed
  /\ unlimited \in SUBSET Workspaces
  /\ store = EmptyStore
  /\ att = [a \in Attempts |->
              IF a = 1 THEN IdleAttempt ELSE [IdleAttempt EXCEPT !.pc = "off"]]
  /\ lastPut = [w \in Workspaces |-> [n \in Names |-> 0]]
  /\ unchecked = {}
  /\ cache = {}
  /\ staleServed = FALSE
  /\ fetcher = NoCall

Next ==
  \/ \E a \in Attempts, w \in Workspaces, u \in Users, n \in Names :
       setBlobStart(a, w, u, n)
  \/ \E a \in Attempts : setBlobUsage(a)
  \/ \E a \in Attempts : setBlobFeature(a)
  \/ \E a \in Attempts, len \in 0 .. MaxPayload : setBlobData(a, len)
  \/ \E a \in Attempts : setBlobError(a)
  \/ \E a \in Attempts : setBlobEnd(a)
  \/ \E a \in Attempts, ok \in BOOLEAN : setBlobPut(a, ok)
  \/ \E w \in Workspaces, u \in Users : blobs(w, u)
  \/ \E w \in Workspaces, u \in Users : blobsSize(w, u)
  \/ \E w \in Workspaces, u \in Users : listBlobs(w, u)
  \/ \E w \in Workspaces, u \in Users, n \in Names : deleteBlob(w, u, n)

Spec == Init /\ [][Next]_vars

\* Two concurrent setBlob calls of one user on one workspace, whose streams
\* deliver non-empty chunks, together with deleteBlob calls on that workspace
\* and a downgrade of the quota record.
InitConc ==
  /\ quota = MaxQuota
  /\ limit = MaxLimit
  /\ baseUsed = 0
  /\ unlimited \in {{}, {"w1"}}
  /\ store = EmptyStore
  /\ att = [a \in Attempts |-> IdleAttempt]
  /\ lastPut = [w \in Workspaces |-> [n \in Names |-> 0]]
  /\ unchecked = {}
  /\ cache = {}
  /\ staleServed = FALSE
  /\ fetcher = NoCall

NextConc ==
  \/ \E a \in Attempts, n \in Names : setBlobStart(a, "w1", "u1", n)
  \/ \E a \in Attempts : setBlobUsage(a)
  \/ \E a \in Attempts : setBlobFeature(a)
  \/ \E a \in Attempts, len \in 1 .. MaxPayload : setBlobData(a, len)
  \/ \E a \in Attempts : setBlobError(a)
  \/ \E a \in Attempts : setBlobEnd(a)
  \/ \E a \in Attempts, ok \in BOOLEAN : setBlobPut(a, ok)
  \/ \E n \in Names : deleteBlob("w1", "u1", n)
  \/ quotaChanged(MaxQuota - 1)

SpecConc == InitConc /\ [][NextConc]_vars

\* The resolver behind the query cache: uploads whose streams deliver chunks of
\* the per-blob limit, deletes, and cached and uncached listings on both
\* workspaces.
InitCache ==
  /\ quota = MaxQuota
  /\ limit = MaxLimit
  /\ baseUsed = 0
  /\ unlimited = {}
  /\ store = EmptyStore
  /\ att = [a \in Attempts |-> IdleAttempt]
  /\ lastPut = [w \in Workspaces |-> [n \in Names |-> 0]]
  /\ unchecked = {}
  /\ cache = {}
  /\ staleServed = FALSE
  /\ fetcher = NoCall

NextCache ==
  \/ \E a \in Attempts, w \in Workspaces, u \in Users, n \in Names :
       setBlobStart(a, w, u, n)
  \/ \E a \in Attempts : setBlobUsage(a)
  \/ \E a \in Attempts : setBlobFeature(a)
  \/ \E a \in Attempts : setBlobData(a, MaxLimit)
  \/ \E a \in Attempts : setBlobError(a)
  \/ \E a \in Attempts : setBlobEnd(a)
  \/ \E a \in Attempts, ok \in BOOLEAN : setBlobPut(a, ok)
  \/ \E w \in Workspaces, u \in Users : blobs(w, u)
  \/ \E w \in Workspaces, u \in Users : cachedListBlobs(w, u)
  \/ \E w \in Workspaces, u \in Users, n \in Names : deleteBlob(w, u, n)

SpecCache == InitCache /\ [][NextCache]_vars

\* ---------------------------------------------------------------- properties
\* the values attempt a read at lines 131-137
Snapshot(a) ==
  [quota |-> att[a].snap.quota, size |-> att[a].snap.size,
   limit |-> att[a].snap.limit, unlimited |-> att[a].unl]

\* attempt a has read the usage and the feature, so checkExceeded(0) has run
Guarded(a) == att[a].usageReads = 1 /\ att[a].featureReads = 1

\* the number of bytes the stream of attempt a has delivered
FinalSize(a) == SumLen(att[a].chunks)

\* the cumulative size after the k-th chunk of attempt a
SizeAfter(a, k) == SumLen(SubSeq(att[a].chunks, 1, k))

\* no stored blob holds a byte of the payload of attempt a
NothingStoredOf(a) ==
  \A w \in Workspaces, n \in Names :
    \A i \in 1 .. Len(store[w][n].bytes) : store[w][n].bytes[i] \div 10 # a

Failures == {"Forbidden", "QuotaMissing", "PayloadTooLarge", "StreamError"}

\* C1: storage.put is invoked for an attempt only if the permission check
\* passed, checkExceeded(0) returned false, every per-chunk check returned
\* false, the stream emitted 'end' and not 'error', and the final check
\* returned false; an attempt that ended on any other path invoked no put and
\* nothing of its payload is in the store.
C1_PutOnlyAfterAllChecks ==
  \A a \in Attempts :
    /\ (att[a].pc = "put" \/ att[a].puts > 0) =>
         /\ att[a].checked
         /\ att[a].stream = "ended"
         /\ att[a].tripped = 0
         /\ checkExceeded(Snapshot(a), 0) = "ok"
         /\ \A k \in 1 .. Len(att[a].chunks) :
              checkExceeded(Snapshot(a), SizeAfter(a, k)) = "ok"
         /\ checkExceeded(Snapshot(a), Len(Concat(att[a].chunks))) = "ok"
    /\ att[a].result \in Failures =>
         att[a].puts = 0 /\ att[a].pc = "done" /\ NothingStoredOf(a)

\* C1 witness: a put was invoked after a stream of at least two chunks
C1_Witness ==
  \E a \in Attempts :
    att[a].puts = 1 /\ Len(att[a].chunks) >= 2 /\ att[a].result = "ok"

\* C2 (as claimed): with a quota limit present and unlimited = false, a payload
\* with usedBytes + finalSize > quotaLimitBytes fails with the 'limit
\* exceeded' error, however it was split into chunks.
C2_AsClaimed ==
  \A a \in Attempts :
    ( /\ Guarded(a)
      /\ att[a].stream \in {"none", "ended"}
      /\ att[a].snap.quota # NoQuota
      /\ ~att[a].unl
      /\ att[a].snap.size + FinalSize(a) > att[a].snap.quota )
    => att[a].result = "PayloadTooLarge"

\* C3 (as claimed): with a quota limit present and unlimited = true, a call
\* whose stream ends without error fails with the 'limit exceeded' error if
\* and only if finalSize > perBlobLimitBytes, and succeeds otherwise.
C3_AsClaimed ==
  \A a \in Attempts :
    ( /\ Guarded(a)
      /\ att[a].pc = "done"
      /\ att[a].stream \in {"none", "ended"}
      /\ att[a].snap.quota # NoQuota
      /\ att[a].unl )
    => /\ att[a].result = "PayloadTooLarge" <=> FinalSize(a) > att[a].snap.limit
       /\ att[a].result \in {"PayloadTooLarge", "ok", "StoreUnavailable"}

\* C4: when the usage has no quota limit, setBlob fails with 'cannot find user
\* quota' before the stream is created: no chunk is pulled and no put is
\* invoked, whatever the unlimited flag, the used size and the per-blob limit.
C4_QuotaRecordMissing ==
  \A a \in Attempts :
    (att[a].usageReads = 1 /\ att[a].snap.quota = NoQuota) =>
      /\ att[a].stream = "none"
      /\ att[a].chunks = <<>>
      /\ att[a].puts = 0
      /\ att[a].pc \in {"feature", "done"}
      /\ att[a].pc = "done" => att[a].result = "QuotaMissing"
      /\ NothingStoredOf(a)

\* C4 witness: a call of an unlimited workspace with used bytes ended with
\* 'cannot find user quota'
C4_Witness ==
  \E a \in Attempts :
    /\ att[a].pc = "done" /\ att[a].result = "QuotaMissing"
    /\ att[a].snap.quota = NoQuota /\ att[a].unl /\ att[a].snap.size > 0

\* C5 (as claimed): once the k-th chunk made the guard return true, no chunk
\* after the k-th is delivered or appended to the buffer of the attempt.
C5_AsClaimed ==
  \A a \in Attempts : att[a].tripped > 0 => Len(att[a].chunks) = att[a].tripped

\* C6 (as claimed): with a quota limit present, usedBytes + finalSize <=
\* quotaLimitBytes or unlimited, finalSize <= perBlobLimitBytes and a stream
\* that ends without error, setBlob issues exactly one put under
\* (workspaceId, filename) with the concatenation of the chunks in arrival
\* order, and returns the filename when the put succeeded.
C6_AsClaimed ==
  \A a \in Attempts :
    ( /\ Guarded(a)
      /\ att[a].pc = "done"
      /\ att[a].stream \in {"none", "ended"}
      /\ att[a].snap.quota # NoQuota
      /\ (att[a].snap.size + FinalSize(a) <= att[a].snap.quota \/ att[a].unl)
      /\ FinalSize(a) <= att[a].snap.limit )
    => /\ att[a].puts = 1
       /\ att[a].putArg = Payload(a, FinalSize(a))
       /\ ~att[a].putFailed => att[a].returned = att[a].name

\* C7 (as claimed): blobs, blobsSize, listBlobs, setBlob and deleteBlob call the
\* storage only after a permission check for the workspace and the caller
\* has passed.
C7_AsClaimed == unchecked = {}

\* C8: one attempt reads the usage and the unlimited flag once each, before
\* the stream is created, and every evaluation of the guard (initial,
\* per-chunk, final) uses those values, also when the services would answer
\* differently by then.
C8_OneSnapshotPerAttempt ==
  \A a \in Attempts :
    /\ att[a].usageReads <= 1 /\ att[a].featureReads <= 1
    /\ att[a].stream # "none" => Guarded(a)
    /\ att[a].views # {} => Guarded(a)
    /\ \A e \in att[a].views : e.view = Snapshot(a)

\* C8 witness: a guard evaluation used the snapshot although the services
\* answered other values at that moment, after at least two chunks
C8_Witness ==
  \E a \in Attempts :
    /\ \E e \in att[a].views : ~e.fresh
    /\ Len(att[a].chunks) >= 2
    /\ att[a].stream = "ended"

\* C9: with concurrent attempts on one (workspaceId, filename), every put
\* carries the complete buffer of its own attempt, and the stored blob is the
\* payload of the attempt whose put was stored last.
C9_LastPutWins ==
  /\ \A a \in Attempts :
       att[a].puts > 0 =>
         /\ att[a].putArg = Payload(a, FinalSize(a))
         /\ att[a].putArg = Concat(att[a].chunks)
  /\ \A w \in Workspaces, n \in Names :
       /\ store[w][n].has <=> lastPut[w][n] # 0
       /\ lastPut[w][n] # 0 =>
            /\ store[w][n] = Blob(att[lastPut[w][n]].putArg)
            /\ att[lastPut[w][n]].ws = w
            /\ att[lastPut[w][n]].name = n
            /\ att[lastPut[w][n]].result = "ok"

\* C9 witness: two attempts on the same key both stored their different
\* payloads, and the blob is that of attempt 1, stored last
C9_Witness ==
  /\ att[1].result = "ok" /\ att[2].result = "ok"
  /\ att[1].ws = att[2].ws /\ att[1].name = att[2].name
  /\ Len(att[1].chunks) >= 2 /\ Len(att[2].chunks) >= 2
  /\ lastPut[att[1].ws][att[1].name] = 1
  /\ store[att[1].ws][att[1].name] = Blob(Payload(1, FinalSize(1)))

\* C10: a put that fails makes setBlob fail with the store's error; the put is
\* invoked once per attempt and no filename is returned.
C10_PutFailureSurfaces ==
  \A a \in Attempts :
    /\ att[a].puts <= 1
    /\ att[a].putFailed =>
         /\ att[a].pc = "done"
         /\ att[a].result = "StoreUnavailable"
         /\ att[a].returned = None
         /\ att[a].puts = 1
         /\ NothingStoredOf(a)

\* C10 witness: a put failed after a stream of two chunks passed every check
C10_Witness ==
  \E a \in Attempts :
    att[a].putFailed /\ att[a].stream = "ended" /\ Len(att[a].chunks) >= 2

\* what the query listBlobs answers for workspace w in the current state
listBlobsResult(w) ==
  LET hits == {e \in cache :
                 e.key \in CacheKeys(listBlobsMakeCache, [workspaceId |-> w])}
  IN IF hits # {} THEN (CHOOSE e \in hits : TRUE).value ELSE listKeys(w)

C12_RoundTrip ==
  [][ /\ \A a \in Attempts :
           setBlobPut(a, TRUE) =>
             /\ att[a].name \in listBlobsResult(att[a].ws)'
             /\ att[a].name \in listKeys(att[a].ws)'
             /\ \A w \in Workspaces \ {att[a].ws} : store'[w] = store[w]
      /\ \A w \in Workspaces, u \in Users, n \in Names :
           deleteBlob(w, u, n) =>
             /\ n \notin listBlobsResult(w)'
             /\ n \notin listKeys(w)'
             /\ \A w2 \in Workspaces \ {w} : store'[w2] = store[w2]
    ]_vars

\* C12 witness: a blob was stored and then deleted while the other workspace
\* holds a blob, and the list of the workspace was cached after the delete
C12_Witness ==
  \E a \in Attempts, w \in Workspaces :
    /\ att[a].result = "ok" /\ att[a].ws # w
    /\ lastPut[att[a].ws][att[a].name] = 0
    /\ listKeys(w) # {}
    /\ \E e \in cache : e.key[2] = <<att[a].ws>>

\* ---------------------------------------------------------------------
\* packages/frontend/graphql/src/fetcher.ts
\* ---------------------------------------------------------------------

\* Longest array drawn for a variable.
MaxArrayLen == 2

\* JavaScript values of the variables, tagged by their type.
Null == [t |-> "null"]
Undefined == [t |-> "undefined"]
Num(n) == [t |-> "num", n |-> n]
Str(s) == [t |-> "str", s |-> s]
Bool(b) == [t |-> "bool", b |-> b]
File(f) == [t |-> "file", f |-> f]
Arr(items) == [t |-> "arr", items |-> items]
\* An object is the sequence of its own enumerable <<key, value>> entries.
Obj(entries) == [t |-> "obj", entries |-> entries]

\* lodash isNil: null or undefined, nothing else.
isNil(value) == value.t \in {"null", "undefined"}

\* lodash isObject: objects, arrays (and Files, which are objects).
isObject(value) == value.t \in {"obj", "arr", "file"}

\* Object.entries: an array's entries are keyed by its indices "0", "1", ...
ObjectEntries(value) ==
  CASE value.t = "obj" -> value.entries
    [] value.t = "arr" ->
         [i \in 1 .. Len(value.items) |-> <<ToString(i - 1), value.items[i]>>]
    [] OTHER -> <<>>

RECURSIVE filterEmptyValue(_)
RECURSIVE filterEntries(_)

\* The forEach body of filterEmptyValue, entry by entry into newVars.
filterEntries(es) ==
  IF Len(es) = 0 THEN <<>>
  ELSE LET key == es[1][1]
           value == es[1][2]
           rest == filterEntries(Tail(es))
       IN IF isNil(value) THEN rest
          ELSE IF isObject(value) /\ value.t # "file"
                 THEN <<(<<key, filterEmptyValue(value)>>)>> \o rest
                 ELSE <<(<<key, value>>)>> \o rest

\* newVars is always a plain object, whatever the argument was.
filterEmptyValue(v) == Obj(filterEntries(ObjectEntries(v)))

\* map[k] = v on a record kept as a sequence of entries.
Assign(entries, k, v) ==
  IF \E i \in 1 .. Len(entries) : entries[i][1] = k
    THEN [i \in 1 .. Len(entries) |->
            IF entries[i][1] = k THEN <<k, v>> ELSE entries[i]]
    ELSE Append(entries, <<k, v>>)

RECURSIVE collectFiles(_, _)
\* The forEach of transformToForm over Object.entries(body.variables):
\* acc.map is written at the fixed key '0', acc.files at the running i.
collectFiles(es, acc) ==
  IF Len(es) = 0 THEN acc
  ELSE LET key == es[1][1]
           value == es[1][2]
       IN IF value.t = "file"
            THEN collectFiles(Tail(es),
                   [map |-> Assign(acc.map, "0", <<"variables", key>>),
                    files |-> Append(acc.files, value)])
            ELSE collectFiles(Tail(es), acc)

transformToForm(body) ==
  LET got == IF body.variables.t = "undefined"
               THEN [map |-> <<>>, files |-> <<>>]
               ELSE collectFiles(ObjectEntries(body.variables),
                                 [map |-> <<>>, files |-> <<>>])
  IN [kind |-> "FormData",
      operations |-> [query |-> body.query, variables |-> body.variables,
                      name |-> body.operationName],
      map |-> got.map,
      parts |-> [i \in 1 .. Len(got.files) |->
                   <<ToString(i - 1), got.files[i]>>]]

\* keepNilVariables ?? true: absent counts as true.
keepNil(options) ==
  IF options.keepNilVariables = "absent" THEN TRUE
  ELSE options.keepNilVariables = "true"

\* Object.entries(undefined) throws a TypeError out of filterEmptyValue.
formatThrows(options) ==
  ~keepNil(options) /\ options.variables.t = "undefined"

formatRequestBody(options) ==
  LET body == [kind |-> "RequestBody",
               query |-> options.query.query,
               variables |-> IF keepNil(options) THEN options.variables
                             ELSE filterEmptyValue(options.variables),
               operationName |-> options.query.operationName]
  IN IF options.query.containsFile THEN transformToForm(body) ELSE body

\* ---- inputs of the frontend calls ----

Scalars == {Null, Undefined, Num(0), Str(""), Bool(FALSE), File("f1"), File("f2")}
ArrayItems == {Null, Num(0)}
Arrays == {Arr(items) : items \in UNION {[1 .. k -> ArrayItems] : k \in 0 .. MaxArrayLen}}
InnerObjects == {Obj(<<>>)} \cup {Obj(<<(<<"x", v>>)>>) : v \in Scalars}
Values == Scalars \cup Arrays \cup InnerObjects
EntriesFor(k) == {<<>>} \cup {<<(<<k, v>>)>> : v \in Values}
Variables ==
  {Undefined} \cup {Obj(ea \o eb) : ea \in EntriesFor("a"), eb \in EntriesFor("b")}
Queries ==
  {[query |-> "q", operationName |-> "op", definitionName |-> "def",
    containsFile |-> c] : c \in BOOLEAN}
Options ==
  [query : Queries, variables : Variables,
   keepNilVariables : {"absent", "true", "false"}]
PriorHeaders ==
  {<<>>, <<(<<"x-request-id", <<"old">>>>)>>, <<(<<"authorization", <<"token">>>>)>>}
HeaderInits ==
  {[kind |-> "absent", entries |-> <<>>]}
    \cup {[kind |-> k, entries |-> e] : k \in {"Headers", "record"}, e \in PriorHeaders}
Events == {"absent", "", "GraphQLRequest"}
RequestIds == {"r1", "r2"}
TraceIds == {"t1"}
SpanIds == {"s1"}
Response(json, failed, errors, data) ==
  [kind |-> "response", json |-> json, failed |-> failed,
   errors |-> errors, data |-> data]
Outcomes ==
  {[kind |-> "rejected"],
   Response(TRUE, FALSE, "absent", TRUE), Response(TRUE, FALSE, "absent", FALSE),
   Response(TRUE, TRUE, "absent", TRUE), Response(TRUE, FALSE, "some", FALSE),
   Response(TRUE, FALSE, "empty", TRUE), Response(FALSE, FALSE, "absent", FALSE)}

\* ---- fetchWithTraceReport ----

traceparentOf(traceId, spanId) == <<"TRACE_VERSION", traceId, spanId, "TRACE_FLAG">>

\* Headers.append adds a value; a plain record's key is assigned.
setTraceHeaders(headers, requestId, traceparent) ==
  IF headers.kind = "record"
    THEN [kind |-> "record",
          entries |-> Assign(Assign(headers.entries, "x-request-id", <<requestId>>),
                             "traceparent", traceparent)]
    ELSE [kind |-> "Headers",
          entries |-> headers.entries
                        \o <<(<<"x-request-id", <<requestId>>>>),
                             (<<"traceparent", traceparent>>)>>]

\* The attributes of a trace: the event is left out when it is falsy.
Trace(kind, call) ==
  [kind |-> kind, traceId |-> call.traceId, spanId |-> call.spanId,
   requestId |-> call.requestId,
   event |-> IF call.event \in {"absent", ""} THEN "absent" ELSE call.event]

tracesAfterFetchBoth(call, resolved) ==
  IF ~call.reporter THEN <<>>
  ELSE IF resolved THEN <<Trace("cacheTrace", call)>>
       ELSE <<Trace("cacheTrace", call), Trace("uploadTrace", call)>>

\* No reporter: nothing; else cacheTrace after a response, uploadTrace in
\* the catch.
tracesAfterFetch(call, resolved) ==
  IF ~call.reporter THEN <<>>
  ELSE IF resolved THEN <<Trace("cacheTrace", call)>>
       ELSE <<Trace("uploadTrace", call)>>

NotCalled == [kind |-> "notCalled"]
NoBody == [kind |-> "none"]
Thrown(e) == [kind |-> "thrown", error |-> e]

\* The call up to its await of fetch(input, init).
callFetch(op, options, body, headers, event, reporter, requestId, traceId, spanId) ==
  [op |-> op, options |-> options, body |-> body, reporter |-> reporter,
   event |-> event, requestId |-> requestId, traceId |-> traceId,
   spanId |-> spanId,
   fetchInit |-> [headers |-> setTraceHeaders(headers, requestId,
                                               traceparentOf(traceId, spanId)),
                  body |-> body],
   pc |-> "fetching", settled |-> NotCalled, traces |-> <<>>,
   result |-> NotCalled]

fetchWithTraceReport(init, event, reporter, requestId, traceId, spanId) ==
  /\ fetcher = NoCall
  /\ fetcher' = callFetch("fetchWithTraceReport", NoBody, NoBody, init, event,
                          reporter, requestId, traceId, spanId)
  /\ UNCHANGED <<quota, limit, baseUsed, unlimited, store, att, lastPut,
                 unchecked, cache, staleServed>>

\* ---- gqlFetch ----

gqlFetch(options, reporter, requestId, traceId, spanId) ==
  /\ fetcher = NoCall
  /\ IF formatThrows(options)
       THEN fetcher' =
              [op |-> "gqlFetch", options |-> options, body |-> NoBody,
               reporter |-> reporter, event |-> "GraphQLRequest",
               requestId |-> requestId, traceId |-> traceId, spanId |-> spanId,
               fetchInit |-> NotCalled, pc |-> "done", settled |-> NotCalled,
               traces |-> <<>>, result |-> Thrown("TypeError")]
       ELSE LET body == formatRequestBody(options)
                headers ==
                  [kind |-> "record",
                   entries |->
                     <<(<<"x-operation-name", <<options.query.operationName>>>>),
                       (<<"x-definition-name", <<options.query.definitionName>>>>)>>
                       \o IF body.kind # "FormData"
                            THEN <<(<<"content-type", <<"application/json">>>>)>>
                            ELSE <<>>]
            IN fetcher' = callFetch("gqlFetch", options, body, headers,
                                    "GraphQLRequest", reporter, requestId,
                                    traceId, spanId)
  /\ UNCHANGED <<quota, limit, baseUsed, unlimited, store, att, lastPut,
                 unchecked, cache, staleServed>>

\* The .then of gqlFetch on the response.
thenResult(res) ==
  IF res.json
    THEN IF res.failed \/ res.errors # "absent"
           THEN IF res.errors = "some" THEN Thrown("GraphQLErrors")
                ELSE Thrown("Empty GraphQL error body")
           ELSE IF res.data THEN [kind |-> "data"]
                ELSE Thrown("GraphQL query responds unexpected result")
    ELSE Thrown("GraphQL query responds unexpected result")

\* fetch settles: the trace is reported, the response returned or the
\* error rethrown; gqlFetch goes on with its .then.
fetchSettles(outcome) ==
  /\ fetcher # NoCall
  /\ fetcher.pc = "fetching"
  /\ LET resolved == outcome.kind = "response"
         out == IF resolved THEN outcome ELSE Thrown("fetchError")
     IN fetcher' =
          [fetcher EXCEPT
             !.pc = "done",
             !.settled = out,
             !.traces = tracesAfterFetch(fetcher, resolved),
             !.result = IF fetcher.op = "gqlFetch" /\ resolved
                          THEN thenResult(outcome) ELSE out]
  /\ UNCHANGED <<quota, limit, baseUsed, unlimited, store, att, lastPut,
                 unchecked, cache, staleServed>>

InitFetch == InitCache

NextFetch ==
  \/ /\ fetcher = NoCall
     /\ \E o \in Options, rep \in BOOLEAN, r \in RequestIds, t \in TraceIds,
           sp \in SpanIds : gqlFetch(o, rep, r, t, sp)
  \/ /\ fetcher = NoCall
     /\ \E h \in HeaderInits, e \in Events, rep \in BOOLEAN, r \in RequestIds,
           t \in TraceIds, sp \in SpanIds :
             fetchWithTraceReport(h, e, rep, r, t, sp)
  \/ \E o \in Outcomes : fetchSettles(o)

SpecFetch == InitFetch /\ [][NextFetch]_vars

\* The variables that went into the request of the call in progress.
sentVariables ==
  IF fetcher.body.kind = "FormData" THEN fetcher.body.operations.variables
  ELSE fetcher.body.variables

\* C13 (as claimed): with keepNilVariables true or absent the variables are
\* sent unchanged; with keepNilVariables false every top-level key whose
\* value is null or undefined is gone and every number, string, boolean,
\* File and array is sent as it was given.
C13_AsClaimed ==
  (fetcher.op = "gqlFetch" /\ fetcher.fetchInit # NotCalled) =>
    LET given == fetcher.options.variables
        sent == sentVariables
    IN IF keepNil(fetcher.options) THEN sent = given
       ELSE \A i \in 1 .. Len(given.entries) :
              LET e == given.entries[i]
              IN IF isNil(e[2])
                   THEN \A j \in 1 .. Len(sent.entries) : sent.entries[j][1] # e[1]
                   ELSE e[2].t \in {"num", "str", "bool", "file", "arr"} =>
                          \E j \in 1 .. Len(sent.entries) : sent.entries[j] = e

C18_AsClaimed ==
  (fetcher.op = "gqlFetch" /\ fetcher.body.kind = "FormData") =>
    /\ Len(fetcher.body.map) = Len(fetcher.body.parts)
    /\ \A i \in 1 .. Len(fetcher.body.parts) :
         \E j \in 1 .. Len(fetcher.body.map) :
           fetcher.body.map[j][1] = fetcher.body.parts[i][1]

\* C14: the check at the end of the stream never rejects an attempt: when
\* the guard is exceeded for the final size under the attempt's snapshot,
\* the check after the last chunk had already rejected the attempt.
C14_FinalCheckRedundant ==
  \A a \in Attempts :
    /\ att[a].by # "final"
    /\ (/\ att[a].stream = "ended"
        /\ Guarded(a)
        /\ checkExceeded(GuardView(att[a]), FinalSize(a)) = "exceeded")
         => /\ att[a].tripped > 0
            /\ att[a].result = "PayloadTooLarge"
            /\ att[a].by = "chunk"

\* A stream of two chunks has ended; the second chunk had taken the
\* attempt past a limit and the end-of-stream check finds the same.
C14_Witness ==
  \E a \in Attempts :
    /\ att[a].stream = "ended"
    /\ Len(att[a].chunks) = 2
    /\ att[a].tripped = 2
    /\ att[a].by = "chunk"
    /\ checkExceeded(GuardView(att[a]), FinalSize(a)) = "exceeded"

\* C15 (as claimed): while the quota limit of a workspace without the
\* unlimited feature stays what it was, the bytes stored for the workspace
\* never exceed it, whatever the interleaving of its setBlob calls.
C15_AsClaimed ==
  ("w1" \notin unlimited /\ quota = MaxQuota) =>
    getWorkspaceUsage("w1").size <= quota

\* C15 (amended): a call of a workspace without the unlimited feature puts
\* its buffer only if the buffer fits under the quota limit together with
\* the used size of the snapshot the call took at its own start, and under
\* the snapshot's per-blob limit; bytes that other calls stored after that
\* snapshot are not counted.
C15_CommitFitsOwnSnapshot ==
  \A a \in Attempts :
    (att[a].puts > 0 /\ ~att[a].unl) =>
      /\ att[a].snap.quota # NoQuota
      /\ att[a].snap.size + Len(att[a].putArg) <= att[a].snap.quota
      /\ Len(att[a].putArg) <= att[a].snap.limit

\* Two calls that each fit under their own snapshot have both stored
\* their blob, and the workspace holds more bytes than its quota limit.
C15_Witness ==
  /\ "w1" \notin unlimited
  /\ quota = MaxQuota
  /\ \A a \in Attempts : att[a].result = "ok" /\ att[a].puts > 0 /\ ~att[a].unl
  /\ getWorkspaceUsage("w1").size > quota

\* C16 (as claimed): a call whose snapshot has a quota limit, a limit of 0
\* included, never fails with 'cannot find user quota'.
C16_AsClaimed ==
  \A a \in Attempts :
    (att[a].usageReads = 1 /\ att[a].snap.quota # NoQuota) =>
      att[a].result # "QuotaMissing"

====
